---- MODULE Spec2Model ----
(***************************************************************************)
(* Model of longiyNodes.py: the per-category node template cache           *)
(* (node_template_cache) and the template importer (node_template_add).    *)
(* Strings are sequences of code points, compared as Python compares str.  *)
(***************************************************************************)
EXTENDS Integers, Sequences, FiniteSets, TLC

VARIABLES
    search_path,        \* NodeTemplatePrefs.search_path_*: ui_type -> directory string
    present,            \* directories for which os.path.exists is true
    node_cache,         \* node_template_cache._node_cache_*: ui_type -> list of (name, filepath)
    node_cache_path,    \* node_template_cache._node_cache_*_path: ui_type -> directory string
    lastCall,           \* record of the most recent node_template_cache call
    prevCall,           \* record of the call before it
    ncalls,             \* number of node_template_cache calls made so far
    nedits,             \* number of preference edits and directory changes so far
    tree_type,          \* type(space.edit_tree).__name__, "None" when edit_tree is None
    nodes,              \* node_tree.nodes: node id -> [select, location, node_tree]
    active,             \* node_tree.nodes.active (0 for None)
    created,            \* number of nodes ever created in the tree (the last id used)
    reports,            \* what the last node_template_add call passed to report()
    calls,              \* the host calls the last node_template_add call made, in order
    outcome,            \* how the last node_template_add call ended
    args,               \* the inputs of the last node_template_add call
    pre,                \* the graph as it was when the last call started
    atUngroup           \* the graph as it was when the last call invoked group_ungroup

cacheVars == <<search_path, present, node_cache, node_cache_path, lastCall, prevCall, ncalls, nedits>>
graphVars == <<tree_type, nodes, active, created, reports, calls, outcome, args, pre, atUngroup>>
vars == <<cacheVars, graphVars>>

----------------------------------------------------------------------------
(* Bounds *)

MaxCalls == 2           \* node_template_cache calls explored per behaviour
MaxPrefEdits == 2       \* preference edits / directory deletions explored per behaviour
MaxNodes == 4           \* nodes ever created in the edited tree
InitNodes == 2          \* nodes in the tree before the first import
MaxContents == 1        \* nodes inside an imported group, as group_ungroup inlines them

----------------------------------------------------------------------------
(* Strings *)

US == 95                \* "_"
SL == 47                \* "/"
EXT == <<46, 98, 108, 101, 110, 100>>      \* ".blend"

Min(a, b) == IF a < b THEN a ELSE b

\* str.startswith
StartsWith(s, p) == Len(s) >= Len(p) /\ SubSeq(s, 1, Len(p)) = p

\* str.endswith
EndsWith(s, p) == Len(s) >= Len(p) /\ SubSeq(s, Len(s) - Len(p) + 1, Len(s)) = p

\* Python str "<": lexicographic by code point, a proper prefix is smaller
StrLess(a, b) ==
    \E i \in 1..(Min(Len(a), Len(b)) + 1) :
        /\ \A j \in 1..(i - 1) : a[j] = b[j]
        /\ \/ i > Len(a) /\ i <= Len(b)
           \/ i <= Len(a) /\ i <= Len(b) /\ a[i] < b[i]

\* Python tuple "<" on (group_name, filepath)
TupleLess(e, f) == StrLess(e[1], f[1]) \/ (e[1] = f[1] /\ StrLess(e[2], f[2]))

\* Python sorted(): a stable ascending sort, here by insertion from the left
RECURSIVE InsertSorted(_, _)
InsertSorted(e, srt) ==
    IF srt = <<>> THEN <<e>>
    ELSE IF TupleLess(e, Head(srt)) THEN <<e>> \o srt
    ELSE <<Head(srt)>> \o InsertSorted(e, Tail(srt))

RECURSIVE SortFrom(_, _)
SortFrom(rest, srt) ==
    IF rest = <<>> THEN srt ELSE SortFrom(Tail(rest), InsertSorted(Head(rest), srt))

\* sorted() left out: the list is stored in enumeration order
sorted_unsorted(seq) == seq

sorted(seq) == SortFrom(seq, <<>>)

\* os.path.join(dirpath, fn) for a relative fn (posix)
join(dirpath, fn) ==
    IF dirpath # <<>> /\ dirpath[Len(dirpath)] # SL THEN dirpath \o <<SL>> \o fn
    ELSE dirpath \o fn

----------------------------------------------------------------------------
(* The host and the file system as the code sees them *)

Categories == {"GeometryNodeTree", "ShaderNodeTree", "CompositorNodeTree", "TextureNodeTree"}

\* what get_ui_type_from_context can return: a mapped type, another editor's
\* type, or None
UiTypes == Categories \cup {"CustomNodeTree", "None"}

DirD == <<47, 100>>                         \* "/d"
DirE == <<47, 101>>                         \* "/e"
DirO == <<47, 111>>                         \* "/o"
Unset == <<>>                               \* StringProperty default ""
Dirs == {DirD, DirE, DirO}

FileA == <<97>> \o EXT                      \* "a.blend"
FileB == <<98>> \o EXT                      \* "b.blend"
FileC == <<99>> \o EXT                      \* "c.blend"
FileN == <<110, 46, 116, 120, 116>>         \* "n.txt"

\* os.listdir(dirpath) as a set; the order is chosen at each scan
Listing(dirpath) ==
    IF dirpath = DirD THEN {FileA, FileB}
    ELSE IF dirpath = DirE THEN {FileC}
    ELSE IF dirpath = DirO THEN {FileN}
    ELSE {}

\* data_from.node_groups of a library file that opens
Groups(dirpath, fn) ==
    IF dirpath = DirD /\ fn = FileA THEN << <<70>>, <<66>> >>              \* "F", "B"
    ELSE IF dirpath = DirD /\ fn = FileB THEN << <<95, 73>>, <<66>>, <<>> >>   \* "_I", "B", ""
    ELSE IF dirpath = DirE /\ fn = FileC THEN << <<70>>, <<95>> >>         \* "F", "_"
    ELSE <<>>

\* the enumeration orders os.listdir may produce
Orders(S) ==
    {o \in [1..Cardinality(S) -> S] : \A i, j \in 1..Cardinality(S) : i # j => o[i] # o[j]}

----------------------------------------------------------------------------
(* node_template_cache *)

\* node_search_path: node_paths.get(ui_type), None rendered as Unset
node_search_path(ui_type) ==
    IF ui_type \in Categories THEN search_path[ui_type] ELSE Unset

\* the inner loop over data_from.node_groups of one opened file
RECURSIVE AppendGroups(_, _, _)
AppendGroups(names, filepath, cache) ==
    IF names = <<>> THEN cache
    ELSE AppendGroups(Tail(names), filepath,
                      IF ~StartsWith(Head(names), <<US>>)
                      THEN Append(cache, <<Head(names), filepath>>)
                      ELSE cache)

\* one iteration of "for fn in os.listdir(dirpath)"; a file in failing raises
\* in bpy.data.libraries.load and is skipped by the except clause
ScanFile(fn, dirpath, failing, cache) ==
    IF EndsWith(fn, EXT)
    THEN IF fn \in failing THEN cache
         ELSE AppendGroups(Groups(dirpath, fn), join(dirpath, fn), cache)
    ELSE cache

\* the try around the whole loop: the first file that fails ends the scan
RECURSIVE ScanFiles_abort(_, _, _, _)
ScanFiles_abort(order, dirpath, failing, cache) ==
    IF order = <<>> THEN cache
    ELSE IF EndsWith(Head(order), EXT) /\ Head(order) \in failing THEN cache
    ELSE ScanFiles_abort(Tail(order), dirpath, failing,
                         ScanFile(Head(order), dirpath, failing, cache))

RECURSIVE ScanFiles(_, _, _, _)
ScanFiles(order, dirpath, failing, cache) ==
    IF order = <<>> THEN cache
    ELSE ScanFiles(Tail(order), dirpath, failing,
                   ScanFile(Head(order), dirpath, failing, cache))

\* the comparison with the stored path left out
NeedReload_samepath(ui_type, dirpath, reload) == reload

\* "if ..._path != dirpath: reload = True"
NeedReload(ui_type, dirpath, reload) ==
    reload \/ node_cache_path[ui_type] # dirpath

\* "if node_cache: return node_cache" (after "if reload: node_cache = []")
ServeCached(cache, reload) == ~reload /\ cache # <<>>

\* The whole function. Result: the returned list, the new cache slot of
\* ui_type, and the number of os.listdir scans performed.
CacheCall(ui_type, reload, order, failing) ==
    LET dirpath == node_search_path(ui_type)
        none == [ret |-> <<>>, scans |-> 0,
                 cache |-> IF ui_type \in Categories THEN node_cache[ui_type] ELSE <<>>,
                 path |-> IF ui_type \in Categories THEN node_cache_path[ui_type] ELSE Unset]
    IN  IF ui_type = "None" THEN none
        ELSE IF dirpath = Unset \/ dirpath \notin present THEN none
        ELSE IF ui_type \notin Categories THEN none
        ELSE LET rl == NeedReload(ui_type, dirpath, reload)
                 stored == node_cache[ui_type]
             IN  IF ServeCached(stored, rl) THEN [none EXCEPT !.ret = stored]
                 ELSE LET scanned == sorted(ScanFiles(order, dirpath, failing, <<>>))
                      IN  [ret |-> scanned, scans |-> 1, cache |-> scanned, path |-> dirpath]

\* whether a call gets as far as os.listdir (and so what it reads from disk)
WillScan(ui_type, reload) == CacheCall(ui_type, reload, <<>>, {}).scans = 1

NoCall == [ui_type |-> "None", dirpath |-> Unset, reload |-> FALSE, existed |-> FALSE,
           scans |-> 0, order |-> <<>>, failed |-> {}, ret |-> <<>>]

\* get_ui_type_from_context yields ui_type; the menu calls with reload = FALSE
ListTemplates(ui_type, reload) ==
    /\ ncalls < MaxCalls
    /\ LET dirpath == node_search_path(ui_type)
           listed == IF WillScan(ui_type, reload) THEN Listing(dirpath) ELSE {}
       IN  \E order \in Orders(listed), failing \in SUBSET {fn \in listed : EndsWith(fn, EXT)} :
             \E r \in {CacheCall(ui_type, reload, order, failing)} :
                 /\ node_cache' = IF ui_type \in Categories
                                  THEN [node_cache EXCEPT ![ui_type] = r.cache]
                                  ELSE node_cache
                 /\ node_cache_path' = IF ui_type \in Categories
                                       THEN [node_cache_path EXCEPT ![ui_type] = r.path]
                                       ELSE node_cache_path
                 /\ lastCall' = [ui_type |-> ui_type, dirpath |-> dirpath,
                                 reload |-> reload, existed |-> dirpath \in present,
                                 scans |-> r.scans,
                                 order |-> IF r.scans = 1 THEN order ELSE <<>>,
                                 failed |-> IF r.scans = 1 THEN failing ELSE {},
                                 ret |-> r.ret]
    /\ prevCall' = [ui_type |-> lastCall.ui_type, dirpath |-> lastCall.dirpath,
                    reload |-> lastCall.reload, existed |-> lastCall.existed,
                    scans |-> lastCall.scans]
    /\ ncalls' = ncalls + 1
    /\ UNCHANGED <<search_path, present, nedits, graphVars>>

\* the user edits a search path in NodeTemplatePrefs
SetSearchPath(ui_type, dirpath) ==
    /\ nedits < MaxPrefEdits
    /\ search_path[ui_type] # dirpath
    /\ search_path' = [search_path EXCEPT ![ui_type] = dirpath]
    /\ nedits' = nedits + 1
    /\ UNCHANGED <<present, node_cache, node_cache_path, lastCall, prevCall, ncalls, graphVars>>

\* a directory is deleted outside the program
RemoveDir(dirpath) ==
    /\ nedits < MaxPrefEdits
    /\ dirpath \in present
    /\ present' = present \ {dirpath}
    /\ nedits' = nedits + 1
    /\ UNCHANGED <<search_path, node_cache, node_cache_path, lastCall, prevCall, ncalls, graphVars>>

\* a directory is (re-)created outside the program
CreateDir(dirpath) ==
    /\ nedits < MaxPrefEdits
    /\ dirpath \notin present
    /\ present' = present \cup {dirpath}
    /\ nedits' = nedits + 1
    /\ UNCHANGED <<search_path, node_cache, node_cache_path, lastCall, prevCall, ncalls, graphVars>>

CacheNext ==
    \/ \E ui_type \in UiTypes, reload \in BOOLEAN : ListTemplates(ui_type, reload)
    \/ \E ui_type \in Categories, dirpath \in Dirs \cup {Unset} : SetSearchPath(ui_type, dirpath)
    \/ \E dirpath \in Dirs : RemoveDir(dirpath)
    \/ \E dirpath \in Dirs : CreateDir(dirpath)

----------------------------------------------------------------------------
(* mathutils.Vector with exact rational coordinates <<numerator, denominator>> *)

Abs(n) == IF n < 0 THEN -n ELSE n

RECURSIVE GCD(_, _)
GCD(a, b) == IF b = 0 THEN a ELSE GCD(b, a % b)

Norm(r) ==
    LET g == GCD(Abs(r[1]), r[2]) IN <<r[1] \div g, r[2] \div g>>

RatAdd(a, b) == Norm(<<a[1] * b[2] + b[1] * a[2], a[2] * b[2]>>)
RatDiv(a, n) == Norm(<<a[1], a[2] * n>>)
RatMul(a, n) == Norm(<<a[1] * n, a[2]>>)

Vector(x, y) == [x |-> <<x, 1>>, y |-> <<y, 1>>]
VecAdd(u, v) == [x |-> RatAdd(u.x, v.x), y |-> RatAdd(u.y, v.y)]
VecDiv(u, n) == [x |-> RatDiv(u.x, n), y |-> RatDiv(u.y, n)]
VecMul(u, n) == [x |-> RatMul(u.x, n), y |-> RatMul(u.y, n)]

\* "for node in node_selected: loc += node.location"
RECURSIVE SumLocations(_, _, _)
SumLocations(ns, ids, loc) ==
    IF ids = {} THEN loc
    ELSE LET n == CHOOSE n \in ids : TRUE
         IN  SumLocations(ns, ids \ {n}, VecAdd(loc, ns[n].location))

----------------------------------------------------------------------------
(* node_template_add *)

TreeTypes == Categories \cup {"CustomNodeTree"}

\* context.selected_nodes
selected_nodes(ns) == {n \in DOMAIN ns : ns[n].select}

\* "loc /= len(node_selected)" left out
node_center_sum(ns) == SumLocations(ns, selected_nodes(ns), Vector(0, 0))

node_center(ns) ==
    LET node_selected == selected_nodes(ns)
        loc == SumLocations(ns, node_selected, Vector(0, 0))
    IN  IF node_selected # {} THEN VecDiv(loc, Cardinality(node_selected)) ELSE loc

\* "for node in node_tree.nodes: node.select = False"
DeselectAll(ns) == [n \in DOMAIN ns |-> [ns[n] EXCEPT !.select = FALSE]]

\* the node_type_string dictionary; a missing key raises KeyError
node_type_string(tt) ==
    CASE tt = "ShaderNodeTree" -> "ShaderNodeGroup"
      [] tt = "CompositorNodeTree" -> "CompositorNodeGroup"
      [] tt = "TextureNodeTree" -> "TextureNodeGroup"
      [] tt = "GeometryNodeTree" -> "GeometryNodeGroup"
      [] OTHER -> "KeyError"

\* node_tree.nodes.new(type=...): a new, unselected node at the origin
NodesNew(ns, id, type) ==
    [n \in DOMAIN ns \cup {id} |->
        IF n = id THEN [select |-> FALSE, location |-> Vector(0, 0),
                        type |-> type, node_tree |-> "None"]
        ELSE ns[n]]

\* "node.node_tree = node_group": the host keeps the assignment only when the
\* group's tree type is the type of the tree the node lives in
AssignNodeTree(ns, id, group_type, tt) ==
    [ns EXCEPT ![id].node_tree = IF group_type = tt THEN group_type ELSE "None"]

\* the removal left out
NodesRemove_keep(ns, id) == ns

\* node_tree.nodes.remove(node)
NodesRemove(ns, id) == [n \in DOMAIN ns \ {id} |-> ns[n]]

\* bpy.ops.node.group_ungroup(): the host replaces the selected group node id
\* by the k nodes of its group, selected, at a place the host chooses
GroupUngroup(ns, id, k, where) ==
    [n \in (DOMAIN ns \ {id}) \cup (id + 1 .. id + k) |->
        IF n > id THEN [select |-> TRUE, location |-> where,
                        type |-> "Inner", node_tree |-> "None"]
        ELSE ns[n]]

\* ungroup tested before is_fail
Ending_ungroupfirst(is_fail, ungroup) ==
    IF ungroup THEN "ungroup" ELSE IF is_fail THEN "remove" ELSE "keep"

\* lines 84-88: whether the call ends by removing the node, by ungrouping it,
\* or by leaving it in place
Ending(is_fail, ungroup) ==
    IF is_fail THEN "remove" ELSE IF ungroup THEN "ungroup" ELSE "keep"

\* the None test left out
NoTree_never(tt) == FALSE

\* "if node_tree is None"
NoTree(tt) == tt = "None"

NoGraph == [nodes |-> <<>>, active |-> 0]

\* The whole function, from the graph g = [nodes, active]. in_file: the
\* assert's condition; group_type: the tree type of the loaded group; k,
\* where: what group_ungroup inlines.
TemplateAdd(tt, g, id, ungroup, in_file, group_type, k, where) ==
    LET unchanged == [nodes |-> g.nodes, active |-> g.active, created |-> id - 1,
                      atUngroup |-> NoGraph]
    IN
    IF NoTree(tt)
    THEN unchanged @@ [reports |-> << <<"ERROR", "No node tree available">> >>,
                       calls |-> <<"report">>, outcome |-> "returned"]
    ELSE IF ~in_file
    THEN unchanged @@ [reports |-> <<>>, calls |-> <<"libraries.load">>,
                       outcome |-> "AssertionError"]
    ELSE
    LET center == node_center(g.nodes)
        cleared == DeselectAll(g.nodes)
        type == node_type_string(tt)
    IN
    IF type = "KeyError"
    THEN [nodes |-> cleared, active |-> g.active, created |-> id - 1,
          atUngroup |-> NoGraph, reports |-> <<>>,
          calls |-> <<"libraries.load">>, outcome |-> "KeyError"]
    ELSE
    LET added == AssignNodeTree(NodesNew(cleared, id, type), id, group_type, tt)
        is_fail == added[id].node_tree = "None"
        placed == [added EXCEPT ![id].select = TRUE, ![id].location = center]
        rep == IF is_fail THEN << <<"WARNING", "Incompatible node type">> >> ELSE <<>>
        log == <<"libraries.load", "nodes.new">> \o
               (IF is_fail THEN <<"report">> ELSE <<>>)
        end == Ending(is_fail, ungroup)
    IN
    IF end = "remove"
    THEN [nodes |-> NodesRemove(placed, id), active |-> 0, created |-> id,
          atUngroup |-> NoGraph, reports |-> rep,
          calls |-> log \o <<"nodes.remove">>, outcome |-> "returned"]
    ELSE IF end = "ungroup"
    THEN [nodes |-> GroupUngroup(placed, id, k, where), active |-> 0, created |-> id + k,
          atUngroup |-> [nodes |-> placed, active |-> id], reports |-> rep,
          calls |-> log \o <<"group_ungroup">>, outcome |-> "returned"]
    ELSE [nodes |-> placed, active |-> id, created |-> id,
          atUngroup |-> NoGraph, reports |-> rep, calls |-> log, outcome |-> "returned"]

Positions == {Vector(2, 0), Vector(4, 0), Vector(-1, 3)}

\* what group_ungroup may inline: how many nodes, and where
Inlined(ungroup) ==
    IF ungroup
    THEN {<<0, Vector(0, 0)>>} \cup {<<k, w>> : k \in 1..MaxContents, w \in Positions}
    ELSE {<<0, Vector(0, 0)>>}

\* one node_template_add call on the edited tree
RunTemplateAdd(ungroup) ==
    /\ created + 1 + MaxContents <= MaxNodes
    /\ \E in_file \in BOOLEAN, group_type \in Categories, inl \in Inlined(ungroup) :
          LET g == [nodes |-> nodes, active |-> active]
          IN  \E r \in {TemplateAdd(tree_type, g, created + 1, ungroup, in_file,
                                    group_type, inl[1], inl[2])} :
              /\ nodes' = r.nodes
              /\ active' = r.active
              /\ created' = r.created
              /\ reports' = r.reports
              /\ calls' = r.calls
              /\ outcome' = r.outcome
              /\ atUngroup' = r.atUngroup
              /\ pre' = g
              /\ args' = [ungroup |-> ungroup, in_file |-> in_file, group_type |-> group_type]
    /\ UNCHANGED <<tree_type, cacheVars>>

\* NODE_OT_template_add.poll
poll == tree_type # "None"

\* NODE_OT_template_add.execute: ungroup is True
OperatorExecute == poll /\ RunTemplateAdd(TRUE)

\* NODE_OT_template_add.invoke: ungroup is event.shift
OperatorInvoke(shift) == poll /\ RunTemplateAdd(shift)

\* node_template_add called as a module function, without the operator's poll
CallTemplateAdd(ungroup) == RunTemplateAdd(ungroup)

InitialNode == [select : BOOLEAN, location : Positions, type : {"Inner"}, node_tree : {"None"}]

ImportNext ==
    \/ OperatorExecute
    \/ \E shift \in BOOLEAN : OperatorInvoke(shift)
    \/ \E ungroup \in BOOLEAN : CallTemplateAdd(ungroup)

\* the module as loaded (lines 252-260, preferences at their defaults), and
\* the node editor's tree as the user has it when the first operation runs
Init ==
    /\ search_path = [c \in Categories |-> Unset]
    /\ present = Dirs
    /\ node_cache = [c \in Categories |-> <<>>]
    /\ node_cache_path = [c \in Categories |-> Unset]
    /\ lastCall = NoCall
    /\ prevCall = [ui_type |-> "None", dirpath |-> Unset, reload |-> FALSE,
                   existed |-> FALSE, scans |-> 0]
    /\ ncalls = 0
    /\ nedits = 0
    /\ tree_type \in TreeTypes \cup {"None"}
    /\ \E n \in 0..InitNodes :
          /\ IF tree_type = "None" THEN nodes = <<>> ELSE nodes \in [1..n -> InitialNode]
          /\ active \in IF tree_type = "None" THEN {0} ELSE 0..n
          /\ created = IF tree_type = "None" THEN 0 ELSE n
    /\ reports = <<>>
    /\ calls = <<>>
    /\ outcome = "idle"
    /\ args = [ungroup |-> FALSE, in_file |-> FALSE, group_type |-> "GeometryNodeTree"]
    /\ pre = NoGraph
    /\ atUngroup = NoGraph

\* the same, in a session with no node tree open
InitIdle ==
    /\ search_path = [c \in Categories |-> Unset]
    /\ present = Dirs
    /\ node_cache = [c \in Categories |-> <<>>]
    /\ node_cache_path = [c \in Categories |-> Unset]
    /\ lastCall = NoCall
    /\ prevCall = [ui_type |-> "None", dirpath |-> Unset, reload |-> FALSE,
                   existed |-> FALSE, scans |-> 0]
    /\ ncalls = 0
    /\ nedits = 0
    /\ tree_type = "None"
    /\ nodes = <<>>
    /\ active = 0
    /\ created = 0
    /\ reports = <<>>
    /\ calls = <<>>
    /\ outcome = "idle"
    /\ args = [ungroup |-> FALSE, in_file |-> FALSE, group_type |-> "GeometryNodeTree"]
    /\ pre = NoGraph
    /\ atUngroup = NoGraph

Next == CacheNext \/ ImportNext

Spec == Init /\ [][Next]_vars

\* the cache alone, in a session that never edits a graph
CacheSpec == InitIdle /\ [][CacheNext]_vars

\* the importer alone, in a session that never opens the menu
ImportSpec == Init /\ [][ImportNext]_vars

----------------------------------------------------------------------------
(* Properties of the cache, checked under CacheSpec *)

Range(seq) == {seq[i] : i \in 1..Len(seq)}

\* the last call was for a mapped category with a configured, existing directory
ListedLast == lastCall.ui_type \in Categories /\ lastCall.existed

\* C1: two consecutive calls for one category with the same existing directory
\* and force_reload false scan at most once in total, also when the directory
\* yields no entry; a changed directory makes the second call scan exactly once.
C1_AtMostOneScan ==
    (/\ ncalls >= 2
     /\ prevCall.ui_type = lastCall.ui_type
     /\ ListedLast /\ prevCall.existed
     /\ ~prevCall.reload /\ ~lastCall.reload)
    => IF prevCall.dirpath = lastCall.dirpath
       THEN prevCall.scans + lastCall.scans <= 1
       ELSE lastCall.scans = 1

\* C5: in a scan, a qualifying file that fails to open contributes no entry to
\* the result or the stored cache, and every visible group of every qualifying
\* file that opens is in the result.
C5_FailedFileSkipped ==
    lastCall.scans = 1 =>
        \A fn \in {f \in Listing(lastCall.dirpath) : EndsWith(f, EXT)} :
            LET filepath == join(lastCall.dirpath, fn)
                names == Groups(lastCall.dirpath, fn)
            IN  IF fn \in lastCall.failed
                THEN /\ \A e \in Range(lastCall.ret) : e[2] # filepath
                     /\ \A e \in Range(node_cache[lastCall.ui_type]) : e[2] # filepath
                ELSE \A i \in 1..Len(names) :
                        (names[i] = <<>> \/ names[i][1] # US)
                            => <<names[i], filepath>> \in Range(lastCall.ret)

\* C5 witness: a scan whose first enumerated file failed to open still returned
\* the entries of another file.
C5_Witness ==
    /\ lastCall.scans = 1
    /\ Len(lastCall.order) >= 2
    /\ lastCall.order[1] \in lastCall.failed
    /\ lastCall.ret # <<>>

\* ascending by (name, then path), with no entry twice
StrictlySorted(seq) ==
    \A i, j \in 1..Len(seq) : i < j => TupleLess(seq[i], seq[j])

\* C6: every returned sequence and every stored cache is sorted ascending by
\* (name, path), and a fresh scan returns exactly the entries the directory
\* content determines, so the sequence does not depend on the enumeration order.
C6_SortedDeterministic ==
    /\ StrictlySorted(lastCall.ret)
    /\ \A c \in Categories : StrictlySorted(node_cache[c])
    /\ lastCall.scans = 1 =>
          LET want == {e \in UNION {{<<Groups(lastCall.dirpath, fn)[i],
                                       join(lastCall.dirpath, fn)>> :
                                         i \in 1..Len(Groups(lastCall.dirpath, fn))} :
                                    fn \in Listing(lastCall.dirpath) \ lastCall.failed} :
                          e[1] = <<>> \/ e[1][1] # US}
          IN  Range(lastCall.ret) = want /\ Len(lastCall.ret) = Cardinality(want)

\* C6 witness: a scan that enumerated b.blend before a.blend returned three or
\* more entries, two of them with the same name from different files.
C6_Witness ==
    /\ lastCall.scans = 1
    /\ lastCall.order = <<FileB, FileA>>
    /\ \E i, j \in 1..Len(lastCall.ret) :
          i # j /\ lastCall.ret[i][1] = lastCall.ret[j][1]

\* C7: every entry stored in a cache or returned has a non-empty name that
\* does not begin with an underscore, whatever names the files contain.
C7_NamesVisibleNonEmpty ==
    \A e \in Range(lastCall.ret) \cup UNION {Range(node_cache[c]) : c \in Categories} :
        e[1] # <<>> /\ e[1][1] # US

\* path names a file directly inside directory dir
InDirectory(path, dir) ==
    /\ dir # <<>>
    /\ Len(path) > Len(dir) + 1
    /\ SubSeq(path, 1, Len(dir)) = dir
    /\ path[Len(dir) + 1] = SL
    /\ \A i \in (Len(dir) + 2)..Len(path) : path[i] # SL

\* C10: every stored entry lies directly in its category's stored directory,
\* and every returned entry lies directly in the directory of the call.
C10_EntriesInDirectory ==
    /\ \A c \in Categories : \A e \in Range(node_cache[c]) :
          InDirectory(e[2], node_cache_path[c])
    /\ \A e \in Range(lastCall.ret) : InDirectory(e[2], lastCall.dirpath)

\* C10 witness: a category scanned one directory, was then configured to
\* another, and the next call without reload returned entries.
C10_Witness ==
    /\ ncalls >= 2
    /\ prevCall.ui_type = lastCall.ui_type
    /\ prevCall.scans = 1
    /\ prevCall.dirpath = DirD
    /\ lastCall.dirpath = DirE
    /\ ~lastCall.reload
    /\ lastCall.ret # <<>>

----------------------------------------------------------------------------
(* Properties of the importer, checked under ImportSpec *)

Called == outcome # "idle"

\* the asset is in the file, the tree is of a mapped type and the host kept
\* the group on the new node
Attached == tree_type \in Categories /\ args.in_file /\ args.group_type = tree_type

\* the host left the new node's group empty
Incompatible == tree_type \in Categories /\ args.in_file /\ args.group_type # tree_type

\* the graph is as it was when the call started
GraphUntouched == nodes = pre.nodes /\ active = pre.active

\* C2: a call on a tree of none of the four mapped types ends in the
\* unsupported-context failure and changes nothing in the graph: the same
\* nodes, the same selected flags, the same active node.
C2_UnsupportedNoMutation ==
    (Called /\ tree_type \notin Categories \cup {"None"} /\ args.in_file)
    => /\ outcome = "KeyError"
       /\ DOMAIN nodes = DOMAIN pre.nodes
       /\ \A n \in DOMAIN nodes : nodes[n].select = pre.nodes[n].select
       /\ active = pre.active

\* C3: a call with no edited tree reports exactly one error and stops before
\* the asset loader or any graph call is made.
C3_NoTreeAborts ==
    (Called /\ tree_type = "None")
    => /\ Len(reports) = 1 /\ reports[1][1] = "ERROR"
       /\ outcome = "returned"
       /\ calls = <<"report">>
       /\ GraphUntouched

\* C3 witness: node_template_add has run with no edited tree.
C3_Witness == Called /\ tree_type = "None" /\ reports # <<>>

\* C4: when the host leaves the new node's group empty, a warning is reported
\* and the created node is removed: the tree holds the nodes it held before,
\* for either value of ungroup.
C4_IncompatibleRolledBack ==
    (Called /\ Incompatible)
    => /\ Len(reports) = 1 /\ reports[1][1] = "WARNING"
       /\ DOMAIN nodes = DOMAIN pre.nodes
       /\ Cardinality(DOMAIN nodes) = Cardinality(DOMAIN pre.nodes)
       /\ \A n \in DOMAIN nodes : nodes[n].location = pre.nodes[n].location

\* C4 witness: an incompatible import with ungroup set, into a tree with nodes.
C4_Witness == Called /\ Incompatible /\ args.ungroup /\ pre.nodes # <<>>

\* C8: a successful import without expansion leaves the new node at the mean
\* of the positions of the nodes selected when the call started, and at the
\* origin when none was selected.
C8_PlacedAtMean ==
    (Called /\ Attached /\ ~args.ungroup)
    => LET was == {n \in DOMAIN pre.nodes : pre.nodes[n].select}
           at == nodes[created].location
       IN  /\ created \notin DOMAIN pre.nodes
           /\ IF was = {} THEN at = Vector(0, 0)
              ELSE VecMul(at, Cardinality(was)) = SumLocations(pre.nodes, was, Vector(0, 0))

\* C8 witness: a kept import with two selected nodes whose mean is not a
\* position of either.
C8_Witness ==
    /\ Called /\ Attached /\ ~args.ungroup
    /\ Cardinality({n \in DOMAIN pre.nodes : pre.nodes[n].select}) = 2
    /\ nodes[created].location.x[2] = 2

\* C9: group_ungroup is invoked exactly when the group was attached and
\* ungroup is true; at that moment the new node exists, is the only selected
\* node, is active and sits at the insertion point; no failure path invokes it.
C9_UngroupOnlyOnSuccess ==
    Called =>
        LET ungrouped == "group_ungroup" \in Range(calls)
        IN  /\ ungrouped <=> (Attached /\ args.ungroup)
            /\ (reports # <<>> \/ outcome # "returned") => ~ungrouped
            /\ ungrouped =>
                  LET new == atUngroup.active
                      g == atUngroup.nodes
                  IN  /\ new \in DOMAIN g /\ new \notin DOMAIN pre.nodes
                      /\ {n \in DOMAIN g : g[n].select} = {new}
                      /\ g[new].node_tree = tree_type
                      /\ g[new].location = node_center(pre.nodes)
                      /\ calls[Len(calls)] = "group_ungroup"
                      /\ \E i \in 1..Len(calls) - 1 : calls[i] = "nodes.new"

\* C9 witness: an import that ungrouped, into a tree that had a selected node.
C9_Witness ==
    /\ Called /\ "group_ungroup" \in Range(calls)
    /\ \E n \in DOMAIN pre.nodes : pre.nodes[n].select

====
